---- MODULE Spec2Model ----
(***************************************************************************)
(* no-crlf: a command line tool that rewrites CRLF line endings to LF in   *)
(* the text files found under the paths it is given.  The model follows    *)
(* src/src/main.rs: main's loop over the roots, process_path,              *)
(* process_directory (a walkdir iterator), is_hidden, process_file,        *)
(* is_text_file and convert_crlf_to_lf.                                    *)
(***************************************************************************)
EXTENDS Integers, Sequences, FiniteSets, TLC

(***************************************************************************)
(* Bounds.                                                                 *)
(***************************************************************************)
\* longest byte buffer handed to convert_crlf_to_lf on its own
MaxLen == 5
\* longest list of roots on the command line
MaxRoots == 2

(***************************************************************************)
(* Bytes.                                                                  *)
(***************************************************************************)
CR == 13
LF == 10
\* the byte 'H', any byte that is neither \r nor \n
OtherByte == 72
Byte == {CR, LF, OtherByte}

\* all byte buffers of at most n bytes
BuffersUpTo(n) == UNION {[1..k -> Byte] : k \in 0..n}

(***************************************************************************)
(* convert_crlf_to_lf                                                      *)
(***************************************************************************)
\* the mutated test: any \r that has a successor counts as a CRLF pair
IsCrlfAt_AnyAfterCr(content, i) ==
    /\ i + 1 < Len(content)
    /\ content[i + 1] = CR

\* the test of the loop, on the 0-based index i of the code
IsCrlfAt(content, i) ==
    /\ i + 1 < Len(content)
    /\ content[i + 1] = CR
    /\ content[i + 2] = LF

\* the mutated push: the pair is replaced by its first byte
CrlfReplacement_FirstByte(content, i) == content[i + 1]

\* the byte pushed for a CRLF pair found at 0-based index i
CrlfReplacement(content, i) == LF

RECURSIVE convert_loop(_, _, _)
\* the while loop: i is the 0-based index, result the vector built so far
convert_loop(content, i, result) ==
    IF ~(i < Len(content))
    THEN result
    ELSE IF IsCrlfAt(content, i)
         THEN convert_loop(content, i + 2, Append(result, CrlfReplacement(content, i)))
         ELSE convert_loop(content, i + 1, Append(result, content[i + 1]))

convert_crlf_to_lf(content) == convert_loop(content, 0, <<>>)

\* content.windows(2).any(|w| w == b"\r\n")
HasCrlf(content) ==
    \E k \in 1..(Len(content) - 1) : content[k] = CR /\ content[k + 1] = LF

(***************************************************************************)
(* The file tree the tool is run on.  A name is the sequence of its        *)
(* characters, a path the sequence of its names.                           *)
(***************************************************************************)
nDir     == <<"d">>
nNotes   == <<"a", ".", "t", "x", "t">>
nEnv     == <<".", "e", "n", "v">>
nSub     == <<"s", "u", "b">>
nReadme  == <<"b", ".", "m", "d">>
nGit     == <<".", "g", "i", "t">>
nConfig  == <<"c", "o", "n", "f", "i", "g">>
nImage   == <<"i", ".", "p", "n", "g">>
nFrozen  == <<"r", "o", ".", "t", "x", "t">>
nLocked  == <<"l", "k", ".", "r", "s">>
nBlob    == <<"x", ".", "d", "a", "t">>
nLink    == <<"l", "n">>
nPriv    == <<"p", "r", "i", "v">>
nMain    == <<"f", ".", "r", "s">>
nMissing == <<"g", "o", "n", "e">>
nFifo    == <<"f", "i", "f", "o">>

pDir     == <<nDir>>
pNotes   == <<nDir, nNotes>>
pEnv     == <<nDir, nEnv>>
pSub     == <<nDir, nSub>>
pReadme  == <<nDir, nSub, nReadme>>
pGit     == <<nDir, nGit>>
pConfig  == <<nDir, nGit, nConfig>>
pImage   == <<nDir, nImage>>
pFrozen  == <<nDir, nFrozen>>
pLocked  == <<nDir, nLocked>>
pBlob    == <<nDir, nBlob>>
pLink    == <<nDir, nLink>>
pPriv    == <<nDir, nPriv>>
pMain    == <<nMain>>
pMissing == <<nMissing>>
pFifo    == <<nFifo>>

TextPlain == <<"text", "plain">>
ImagePng  == <<"image", "png">>
NoPath    == <<>>

DirNode(entries, readable) ==
    [kind |-> "dir", entries |-> entries, target |-> NoPath,
     media |-> <<"", "">>, readable |-> readable, writable |-> TRUE]
FileNode(media, readable, writable) ==
    [kind |-> "file", entries |-> <<>>, target |-> NoPath,
     media |-> media, readable |-> readable, writable |-> writable]
LinkNode(target) ==
    [kind |-> "symlink", entries |-> <<>>, target |-> target,
     media |-> <<"", "">>, readable |-> TRUE, writable |-> TRUE]
OtherNode ==
    [kind |-> "other", entries |-> <<>>, target |-> NoPath,
     media |-> <<"", "">>, readable |-> TRUE, writable |-> TRUE]

\* what is on the filesystem; pMissing is not
Tree ==
    (pDir    :> DirNode(<<nNotes, nEnv, nSub, nGit, nImage, nFrozen,
                          nLocked, nBlob, nLink, nPriv>>, TRUE)) @@
    (pNotes  :> FileNode(TextPlain, TRUE, TRUE)) @@
    (pEnv    :> FileNode(TextPlain, TRUE, TRUE)) @@
    (pSub    :> DirNode(<<nReadme>>, TRUE)) @@
    (pReadme :> FileNode(TextPlain, TRUE, TRUE)) @@
    (pGit    :> DirNode(<<nConfig>>, TRUE)) @@
    (pConfig :> FileNode(TextPlain, TRUE, TRUE)) @@
    (pImage  :> FileNode(ImagePng, TRUE, TRUE)) @@
    (pFrozen :> FileNode(TextPlain, TRUE, FALSE)) @@
    (pLocked :> FileNode(TextPlain, FALSE, TRUE)) @@
    (pBlob   :> FileNode(TextPlain, FALSE, TRUE)) @@
    (pLink   :> LinkNode(pReadme)) @@
    (pPriv   :> DirNode(<<>>, FALSE)) @@
    (pMain   :> FileNode(TextPlain, TRUE, TRUE)) @@
    (pFifo   :> OtherNode)

RootChoices == {pDir, pMain, pMissing, pFifo}
RegularFiles == {p \in DOMAIN Tree : Tree[p].kind = "file"}

\* buffers a file may hold when the run starts
SampleContents ==
    { <<>>,
      <<OtherByte, LF>>,
      <<OtherByte, CR, LF>>,
      <<CR, CR, LF>>,
      <<CR, OtherByte, CR, LF, CR>> }

\* the content of every regular file but pNotes when the run starts
FixedContent(p) ==
    IF p = pImage THEN <<OtherByte, CR, LF, OtherByte>>
    ELSE IF p = pMain THEN <<OtherByte, LF, OtherByte>>
    ELSE <<OtherByte, CR, LF>>

(***************************************************************************)
(* std::path and std::fs as the code uses them.                            *)
(***************************************************************************)
\* the file a path leads to, symbolic links followed
Resolve(path) ==
    IF path \in DOMAIN Tree /\ Tree[path].kind = "symlink"
    THEN Tree[path].target
    ELSE path

\* Path::exists, Path::is_file, Path::is_dir: all three follow links
PathExists(path) == Resolve(path) \in DOMAIN Tree
PathIsFile(path) == PathExists(path) /\ Tree[Resolve(path)].kind = "file"
PathIsDir(path)  == PathExists(path) /\ Tree[Resolve(path)].kind = "dir"

\* Path::file_name
FileName(path) == path[Len(path)]

StartsWithDot(name) == Len(name) > 0 /\ name[1] = "."

is_hidden(path) == StartsWithDot(FileName(path))

\* Path::extension: what follows the last dot of the file name, none when
\* the name has no dot or only a leading one
LastDot(name) ==
    LET dots == {k \in 1..Len(name) : name[k] = "."}
    IN  IF dots = {} THEN 0 ELSE CHOOSE k \in dots : \A j \in dots : j <= k

HasExtension(path) == LastDot(FileName(path)) > 1

Extension(path) ==
    LET name == FileName(path)
    IN  SubSeq(name, LastDot(name) + 1, Len(name))

CodeExtensions ==
    { <<"r", "s">>, <<"t", "o", "m", "l">>, <<"j", "s", "o", "n">>,
      <<"y", "a", "m", "l">>, <<"y", "m", "l">>, <<"m", "d">>,
      <<"t", "x", "t">>, <<"s", "h">>, <<"p", "y">>, <<"j", "s">>,
      <<"t", "s">>, <<"c">>, <<"c", "p", "p">>, <<"h">>,
      <<"h", "p", "p">>, <<"j", "a", "v", "a">>, <<"g", "o">>,
      <<"r", "b">>, <<"p", "h", "p">>, <<"c", "s">>,
      <<"s", "w", "i", "f", "t">>, <<"k", "t">> }

\* opening for reading succeeds
CanRead(path) == PathExists(path) /\ Tree[Resolve(path)].readable
\* opening for writing succeeds
CanWrite(path) == PathExists(path) /\ Tree[Resolve(path)].writable

(***************************************************************************)
(* is_text_file                                                            *)
(***************************************************************************)
IsCode(path) == HasExtension(path) /\ Extension(path) \in CodeExtensions

\* the result of is_text_file: err is the Err arm of its Result
is_text_file(path) ==
    IF CanRead(path)
    THEN LET media_type == Tree[Resolve(path)].media
             is_text == media_type[1] = "text"
         IN  [err |-> FALSE, value |-> is_text \/ IsCode(path)]
    ELSE [err |-> FALSE, value |-> IsCode(path)]

(***************************************************************************)
(* State.                                                                  *)
(***************************************************************************)
VARIABLES
    paths,            \* args.paths
    recursive,        \* args.recursive
    dry_run,          \* args.dry_run
    skip_hidden,      \* args.skip_hidden
    disk,             \* the content of every regular file
    idx,              \* position of main's loop in paths, from 1
    total_files,
    converted_files,
    errors,
    walker,           \* the WalkDir iterator of process_directory
    pc,               \* "main", "walk", "done"; "off" when main is not run
    exit_code,        \* the status the process ends with
    log,              \* history: one entry per call of process_file
    content,          \* a buffer handed to convert_crlf_to_lf on its own
    converted,        \* its conversion
    reconverted,      \* the conversion of its conversion
    cpc               \* "input", "once", "twice"; "off" when not used

mainVars == <<paths, recursive, dry_run, skip_hidden, disk, idx, total_files,
              converted_files, errors, walker, pc, exit_code, log>>
convVars == <<content, converted, reconverted, cpc>>
vars == <<paths, recursive, dry_run, skip_hidden, disk, idx, total_files,
          converted_files, errors, walker, pc, exit_code, log,
          content, converted, reconverted, cpc>>

(***************************************************************************)
(* process_file                                                            *)
(***************************************************************************)
\* the mutated branch: the dry_run flag is not looked at
WritesBack_Always(dry) == TRUE

\* the else branch of `if dry_run`: the buffer goes back to the file
WritesBack(dry) == ~dry

\* what one call leaves behind: the counters, the disk, and for the history
\* the classification, the outcome, whether fs::write succeeded, whether
\* the call returned Err
Outcome(tf, cf, d, cls, res, wrote, err) ==
    [total_files |-> tf, converted_files |-> cf, disk |-> d,
     cls |-> cls, res |-> res, wrote |-> wrote, err |-> err]

process_file(path, dry, tf, cf, d) ==
    LET text == is_text_file(path) IN
    IF text.err
    THEN Outcome(tf, cf, d, "error", "classify-error", FALSE, TRUE)
    ELSE IF ~text.value
    THEN Outcome(tf, cf, d, "not-text", "skipped-binary", FALSE, FALSE)
    ELSE IF ~CanRead(path)
    THEN Outcome(tf + 1, cf, d, "text", "read-error", FALSE, TRUE)
    ELSE
    LET buf == d[Resolve(path)] IN
    IF ~HasCrlf(buf)
    THEN Outcome(tf + 1, cf, d, "text", "skipped-no-crlf", FALSE, FALSE)
    ELSE
    LET conv == convert_crlf_to_lf(buf) IN
    IF Len(conv) = Len(buf)
    THEN Outcome(tf + 1, cf, d, "text", "skipped-no-change", FALSE, FALSE)
    ELSE IF ~WritesBack(dry)
    THEN Outcome(tf + 1, cf + 1, d, "text", "dry-run-would-convert", FALSE, FALSE)
    ELSE IF ~CanWrite(path)
    THEN Outcome(tf + 1, cf, d, "text", "write-error", FALSE, TRUE)
    ELSE Outcome(tf + 1, cf + 1, [d EXCEPT ![Resolve(path)] = conv],
                 "text", "converted", TRUE, FALSE)

\* the call of process_file by process_path or process_directory, which
\* logs an Err and goes on
CallProcessFile(path) ==
    LET o == process_file(path, dry_run, total_files, converted_files, disk)
    IN  /\ total_files' = o.total_files
        /\ converted_files' = o.converted_files
        /\ disk' = o.disk
        /\ log' = Append(log, [root |-> idx, path |-> path, cls |-> o.cls,
                               res |-> o.res, wrote |-> o.wrote, err |-> o.err])

(***************************************************************************)
(* The WalkDir iterator: follow_links(false), max_depth 1 unless recursive *)
(***************************************************************************)
\* max_depth(1) when not recursive, no limit otherwise
TooDeep(depth) == ~recursive /\ depth > 1

\* the entries read_dir gives for a directory, or the error it gives
DirList(dir) ==
    IF Tree[dir].readable
    THEN [k \in 1..Len(Tree[dir].entries) |->
              [ok |-> TRUE, path |-> Append(dir, Tree[dir].entries[k])]]
    ELSE << [ok |-> FALSE, path |-> dir] >>

\* a directory that is not reached through a link is descended into
IsNormalDir(path) == Tree[path].kind = "dir"

\* the stack after an entry was taken: its list is pushed when it is a
\* directory
HandleEntry(stack, path) ==
    IF IsNormalDir(path) THEN Append(stack, DirList(path)) ELSE stack

Pop(stack) == SubSeq(stack, 1, Len(stack) - 1)

RECURSIVE WalkerNext(_)
\* Iterator::next: the item given ("none" at the end) and the stack left
WalkerNext(stack) ==
    IF stack = <<>>
    THEN [kind |-> "none", path |-> NoPath, stack |-> stack]
    ELSE IF TooDeep(Len(stack) - 1)
    THEN WalkerNext(Pop(stack))
    ELSE
    LET top == stack[Len(stack)] IN
    IF top = <<>>
    THEN WalkerNext(Pop(stack))
    ELSE
    LET item == Head(top)
        rest == [stack EXCEPT ![Len(stack)] = Tail(top)]
    IN  IF item.ok
        THEN [kind |-> "ok", path |-> item.path,
              stack |-> HandleEntry(rest, item.path)]
        ELSE [kind |-> "err", path |-> item.path, stack |-> rest]

\* WalkDir::new(dir): the root is the first entry given, at depth 0; the
\* list at position k of the stack holds the entries of depth k - 1
NewWalker(dir) == << << [ok |-> TRUE, path |-> dir] >> >>

(***************************************************************************)
(* main and process_path                                                   *)
(***************************************************************************)
Root == paths[idx]
InMain == pc = "main" /\ idx <= Len(paths)

\* the mutated handler: the loop over the roots ends at the first Err
MainMissing_StopsRun ==
    /\ InMain
    /\ ~PathExists(Root)
    /\ errors' = errors + 1
    /\ idx' = Len(paths) + 1
    /\ UNCHANGED <<paths, recursive, dry_run, skip_hidden, disk, total_files,
                   converted_files, walker, pc, exit_code, log>>
    /\ UNCHANGED convVars

\* process_path returns Err for a path that does not exist; main counts it
MainMissing ==
    /\ InMain
    /\ ~PathExists(Root)
    /\ errors' = errors + 1
    /\ idx' = idx + 1
    /\ UNCHANGED <<paths, recursive, dry_run, skip_hidden, disk, total_files,
                   converted_files, walker, pc, exit_code, log>>
    /\ UNCHANGED convVars

\* the root is a file: process_file, its Err logged, process_path Ok
MainFile ==
    /\ InMain
    /\ PathExists(Root)
    /\ PathIsFile(Root)
    /\ CallProcessFile(Root)
    /\ idx' = idx + 1
    /\ UNCHANGED <<paths, recursive, dry_run, skip_hidden, errors, walker,
                   pc, exit_code>>
    /\ UNCHANGED convVars

\* the root is a directory: process_directory builds its walker
MainDir ==
    /\ InMain
    /\ PathExists(Root)
    /\ ~PathIsFile(Root)
    /\ PathIsDir(Root)
    /\ walker' = NewWalker(Root)
    /\ pc' = "walk"
    /\ UNCHANGED <<paths, recursive, dry_run, skip_hidden, disk, idx,
                   total_files, converted_files, errors, exit_code, log>>
    /\ UNCHANGED convVars

\* the root is neither: a warning, process_path Ok
MainOther ==
    /\ InMain
    /\ PathExists(Root)
    /\ ~PathIsFile(Root)
    /\ ~PathIsDir(Root)
    /\ idx' = idx + 1
    /\ UNCHANGED <<paths, recursive, dry_run, skip_hidden, disk, total_files,
                   converted_files, errors, walker, pc, exit_code, log>>
    /\ UNCHANGED convVars

\* after the loop: the summary, and exit(1) when errors were counted
MainSummary ==
    /\ pc = "main"
    /\ idx > Len(paths)
    /\ pc' = "done"
    /\ exit_code' = IF errors > 0 THEN 1 ELSE 0
    /\ UNCHANGED <<paths, recursive, dry_run, skip_hidden, disk, idx,
                   total_files, converted_files, errors, walker, log>>
    /\ UNCHANGED convVars

(***************************************************************************)
(* process_directory: one turn of `for entry in walker`                    *)
(***************************************************************************)
Entry == WalkerNext(walker)

\* the walker is exhausted: process_directory and process_path return Ok
WalkEnd ==
    /\ pc = "walk"
    /\ Entry.kind = "none"
    /\ walker' = <<>>
    /\ pc' = "main"
    /\ idx' = idx + 1
    /\ UNCHANGED <<paths, recursive, dry_run, skip_hidden, disk, total_files,
                   converted_files, errors, exit_code, log>>
    /\ UNCHANGED convVars

\* Err(e): a warning
WalkEntryError ==
    /\ pc = "walk"
    /\ Entry.kind = "err"
    /\ walker' = Entry.stack
    /\ UNCHANGED <<paths, recursive, dry_run, skip_hidden, disk, idx,
                   total_files, converted_files, errors, pc, exit_code, log>>
    /\ UNCHANGED convVars

\* a hidden entry is passed over with `continue`
WalkSkipHidden ==
    /\ pc = "walk"
    /\ Entry.kind = "ok"
    /\ skip_hidden /\ is_hidden(Entry.path)
    /\ walker' = Entry.stack
    /\ UNCHANGED <<paths, recursive, dry_run, skip_hidden, disk, idx,
                   total_files, converted_files, errors, pc, exit_code, log>>
    /\ UNCHANGED convVars

\* a file: process_file, its Err logged
WalkFile ==
    /\ pc = "walk"
    /\ Entry.kind = "ok"
    /\ ~(skip_hidden /\ is_hidden(Entry.path))
    /\ PathIsFile(Entry.path)
    /\ CallProcessFile(Entry.path)
    /\ walker' = Entry.stack
    /\ UNCHANGED <<paths, recursive, dry_run, skip_hidden, idx, errors, pc,
                   exit_code>>
    /\ UNCHANGED convVars

\* anything else is passed over
WalkNotFile ==
    /\ pc = "walk"
    /\ Entry.kind = "ok"
    /\ ~(skip_hidden /\ is_hidden(Entry.path))
    /\ ~PathIsFile(Entry.path)
    /\ walker' = Entry.stack
    /\ UNCHANGED <<paths, recursive, dry_run, skip_hidden, disk, idx,
                   total_files, converted_files, errors, pc, exit_code, log>>
    /\ UNCHANGED convVars

(***************************************************************************)
(* The run of the tool.                                                    *)
(***************************************************************************)
RootLists == UNION {[1..k -> RootChoices] : k \in 1..MaxRoots}

ConvIdle ==
    /\ content = <<>>
    /\ converted = <<>>
    /\ reconverted = <<>>
    /\ cpc = "off"

Init ==
    /\ paths \in RootLists
    /\ recursive \in BOOLEAN
    /\ dry_run \in BOOLEAN
    /\ skip_hidden \in BOOLEAN
    /\ \E c \in SampleContents :
          disk = [p \in RegularFiles |-> IF p = pNotes THEN c ELSE FixedContent(p)]
    /\ idx = 1
    /\ total_files = 0
    /\ converted_files = 0
    /\ errors = 0
    /\ walker = <<>>
    /\ pc = "main"
    /\ exit_code = 0
    /\ log = <<>>
    /\ ConvIdle

Next ==
    \/ MainMissing
    \/ MainFile
    \/ MainDir
    \/ MainOther
    \/ MainSummary
    \/ WalkEnd
    \/ WalkEntryError
    \/ WalkSkipHidden
    \/ WalkFile
    \/ WalkNotFile

Spec == Init /\ [][Next]_vars

(***************************************************************************)
(* convert_crlf_to_lf applied to a buffer, and to its own output.          *)
(***************************************************************************)
MainIdle ==
    /\ paths = <<>>
    /\ recursive = FALSE
    /\ dry_run = FALSE
    /\ skip_hidden = FALSE
    /\ disk = <<>>
    /\ idx = 1
    /\ total_files = 0
    /\ converted_files = 0
    /\ errors = 0
    /\ walker = <<>>
    /\ pc = "off"
    /\ exit_code = 0
    /\ log = <<>>

ConvInit ==
    /\ content \in BuffersUpTo(MaxLen)
    /\ converted = <<>>
    /\ reconverted = <<>>
    /\ cpc = "input"
    /\ MainIdle

ConvertOnce ==
    /\ cpc = "input"
    /\ converted' = convert_crlf_to_lf(content)
    /\ cpc' = "once"
    /\ UNCHANGED <<content, reconverted>>
    /\ UNCHANGED mainVars

ConvertTwice ==
    /\ cpc = "once"
    /\ reconverted' = convert_crlf_to_lf(converted)
    /\ cpc' = "twice"
    /\ UNCHANGED <<content, converted>>
    /\ UNCHANGED mainVars

ConvNext == ConvertOnce \/ ConvertTwice

SpecConvert == ConvInit /\ [][ConvNext]_vars

(***************************************************************************)
(* Properties.                                                             *)
(***************************************************************************)
LogIdx == 1..Len(log)
LastEntry(l) == l[Len(l)]
\* the root at position i is a directory that was walked
WalkedRoot(i) == PathIsDir(paths[i]) /\ ~PathIsFile(paths[i])
\* the paths handed to process_file while the root at position i was processed
HandedOf(i) == {log[k].path : k \in {j \in LogIdx : log[j].root = i}}
CallsOf(i) == Cardinality({j \in LogIdx : log[j].root = i})

IsPrefix(a, b) == Len(a) <= Len(b) /\ SubSeq(b, 1, Len(a)) = a

\* C1: a file's content changes only in a step of a run without dry_run, in
\* which process_file classified that file as text and the converted buffer,
\* which becomes the content, is strictly shorter than the content read; so
\* with dry_run no step changes any file.
C1_WriteOnlyTextShorterNotDryRun ==
    [][ \A f \in RegularFiles :
            disk'[f] # disk[f] =>
                /\ ~dry_run
                /\ Len(log') = Len(log) + 1
                /\ Resolve(LastEntry(log').path) = f
                /\ LastEntry(log').cls = "text"
                /\ disk'[f] = convert_crlf_to_lf(disk[f])
                /\ Len(disk'[f]) < Len(disk[f]) ]_vars

\* a text file with CRLF was written back, and it no longer holds what a
\* file of its kind held at the start
C1_Witness ==
    /\ ~dry_run
    /\ \E k \in LogIdx :
          /\ log[k].wrote
          /\ log[k].path = pReadme
          /\ disk[pReadme] # FixedContent(pReadme)

\* a \r immediately followed by \r\n
HasCrCrLf(b) ==
    \E k \in 1..(Len(b) - 2) : b[k] = CR /\ b[k + 1] = CR /\ b[k + 2] = LF

\* C2 as stated: the conversion of any buffer holds no \r\n, and converting
\* it again changes nothing.
C2_Original ==
    cpc = "twice" => ~HasCrlf(converted) /\ reconverted = converted

\* C2 amended: the conversion of a buffer holds a \r\n exactly when the buffer
\* holds \r\r\n, and converting again changes nothing exactly when it does not.
C2_NoCrlfLeftUnlessCrCrLf ==
    cpc = "twice" =>
        /\ HasCrlf(converted) <=> HasCrCrLf(content)
        /\ (reconverted = converted) <=> ~HasCrCrLf(content)

C2_Witness ==
    /\ cpc = "twice"
    /\ HasCrlf(content)
    /\ ~HasCrCrLf(content)
    /\ converted # content
    /\ reconverted = converted

\* the positions of b that do not hold a \r immediately followed by \n
KeptPositions(b) ==
    {k \in 1..Len(b) : ~(b[k] = CR /\ k < Len(b) /\ b[k + 1] = LF)}

\* b restricted to the positions kept, in their order
DeleteCrBeforeLf(b) ==
    LET kept == KeptPositions(b)
        nth(j) == CHOOSE k \in kept : Cardinality({m \in kept : m < k}) = j - 1
    IN  [j \in 1..Cardinality(kept) |-> b[nth(j)]]

CrlfPairs(b) ==
    Cardinality({k \in 1..(Len(b) - 1) : b[k] = CR /\ b[k + 1] = LF})

\* C3: the conversion of b is b without the \r bytes that are immediately
\* followed by \n, every other byte kept in order; its length is that of b
\* less the number of \r\n pairs, and b without \r\n is returned unchanged.
C3_DeletesExactlyCrBeforeLf ==
    cpc \in {"once", "twice"} =>
        /\ converted = DeleteCrBeforeLf(content)
        /\ Len(converted) = Len(content) - CrlfPairs(content)
        /\ (~HasCrlf(content) => converted = content)

\* a buffer with a \r\n, a \r before another byte and a trailing \r
C3_Witness ==
    /\ cpc = "once"
    /\ HasCrlf(content)
    /\ content[Len(content)] = CR
    /\ \E k \in 1..(Len(content) - 1) : content[k] = CR /\ content[k + 1] # LF
    /\ Len(converted) < Len(content)

\* a name below the root of the walk starts with a dot
HiddenBelow(root, path) ==
    \E k \in (Len(root) + 1)..Len(path) : StartsWithDot(path[k])

\* C4 as stated: walking a directory with skip_hidden hands over no file that
\* is hidden or lies under a hidden directory; without skip_hidden (and with
\* recursive) the hidden file and the file under the hidden directory are
\* both handed over.
C4_Original ==
    /\ skip_hidden =>
          \A k \in LogIdx :
              WalkedRoot(log[k].root) => ~HiddenBelow(paths[log[k].root], log[k].path)
    /\ (pc = "done" /\ ~skip_hidden /\ recursive) =>
          \A i \in 1..Len(paths) :
              paths[i] = pDir => {pEnv, pConfig} \subseteq HandedOf(i)

\* the regular files that are direct children of root, hidden ones left out
\* under skip_hidden
DirectRegularFiles(root) ==
    {p \in DOMAIN Tree :
        /\ Len(p) = Len(root) + 1
        /\ IsPrefix(root, p)
        /\ Tree[p].kind = "file"
        /\ ~(skip_hidden /\ StartsWithDot(FileName(p)))}

\* C5 as stated: without recursive the walk of a directory hands over exactly
\* its direct children that are regular files (less the hidden ones), and no
\* file in a subdirectory is touched; a directory is never handed over.
C5_Original ==
    /\ \A k \in LogIdx :
          WalkedRoot(log[k].root) => Tree[log[k].path].kind # "dir"
    /\ (pc = "done" /\ ~recursive) =>
          \A i \in 1..Len(paths) :
              WalkedRoot(i) =>
                  /\ HandedOf(i) = DirectRegularFiles(paths[i])
                  /\ \A k \in LogIdx :
                        log[k].root = i => Len(Resolve(log[k].path)) = Len(paths[i]) + 1

IoFailures == {k \in LogIdx : log[k].res \in {"read-error", "write-error"}}

\* C6 as stated: at the end of the run the error counter is at least the
\* number of files whose read or write failed.
C6_Original ==
    pc = "done" => errors >= Cardinality(IoFailures)

MissingRoots == {i \in 1..Len(paths) : ~PathExists(paths[i])}

\* the files a root yields when it is processed on its own
CandidatesAlone(root) ==
    IF PathIsFile(root) THEN {root}
    ELSE IF PathIsDir(root)
    THEN {p \in DOMAIN Tree :
             /\ IsPrefix(root, p)
             /\ (recursive \/ Len(p) <= Len(root) + 1)
             /\ PathIsFile(p)
             /\ ~(skip_hidden /\ is_hidden(p))}
    ELSE {}

\* C7: at the summary every root that exists has had exactly the files handed
\* to process_file that it yields on its own, each once, wherever the missing
\* roots stand in the list; the error counter is the number of missing roots,
\* and with a missing root it is not zero and the exit status is 1.
C7_MissingRootDoesNotStopOthers ==
    pc = "done" =>
        /\ errors = Cardinality(MissingRoots)
        /\ (MissingRoots # {} => errors > 0 /\ exit_code = 1)
        /\ \A i \in 1..Len(paths) :
              PathExists(paths[i]) =>
                  /\ HandedOf(i) = CandidatesAlone(paths[i])
                  /\ CallsOf(i) = Cardinality(CandidatesAlone(paths[i]))

\* a missing root stood before a directory, whose files were processed
C7_Witness ==
    /\ pc = "done"
    /\ Len(paths) >= 2
    /\ ~PathExists(paths[1])
    /\ paths[2] = pDir
    /\ pNotes \in HandedOf(2)
    /\ errors = 1

\* C8 as stated: at the end of the run converted_files is the number of
\* files written back.
C8_Original ==
    pc = "done" => converted_files = Cardinality({k \in LogIdx : log[k].wrote})

\* C9 as stated: a file that cannot be opened makes the classification fail,
\* so the call ends in an error and the file is not counted as a text file.
C9_Original ==
    \A k \in LogIdx :
        ~CanRead(log[k].path) => log[k].cls = "error" /\ log[k].err

OtherRoots ==
    {i \in 1..Len(paths) :
        PathExists(paths[i]) /\ ~PathIsFile(paths[i]) /\ ~PathIsDir(paths[i])}

\* C10 as stated: a root that exists and is neither a file nor a directory
\* adds one to the error counter, as a missing root does.
C10_Original ==
    pc = "done" => errors = Cardinality(MissingRoots) + Cardinality(OtherRoots)

====
